---- MODULE Spec2Model ----
(***************************************************************************)
(* A model of SikumAI's prompt executor (chatbot/chatbot.py), chapter      *)
(* locator (functions/book.py) and chapter -> plot points -> Q&A pipeline. *)
(*                                                                         *)
(* Texts (prompts, responses, page contents) are sequences of string       *)
(* tokens.  A Python Optional is a sequence of length 0 (None) or 1.       *)
(***************************************************************************)
EXTENDS Integers, Sequences, FiniteSets, TLC

\* ------------------------------------------------------------------ bounds
\* The threads that may run execute_prompt (the sequential specifications
\* only ever start thread 1).
Procs == {1, 2}

\* chatbot.py:44  tries, max_tries = 0, 3
max_tries == 3

\* chatbot.py:63  the fixed failure sentinel
Sentinel == <<"Could not get answer from API, try again later">>

\* Python's None, as an Optional
None == <<>>

\* The prompts the driver of SpecExec passes to execute_prompt.
ExecPrompts == {<<"p">>, <<"q">>}

\* The answer texts the remote API may put in a well-formed body.
ExecTexts == {<<"x">>, <<"y">>}

\* The answer texts of the remote API in the pipeline: a chapter list, a
\* plot-points answer, an answer holding "Error", and a Q&A answer.
TList == <<"A", "\n", "B", "\n", "C">>
TPlot == <<"**", "Decisions", ":", "**", " ", "left.", "\n",
           "**", "Notes", ":", "**", " ", "x1y">>
TError == <<"Error", ":", " ", "quota">>
TQA == <<"Intro", " ", "**", "Question", " ", "1", ":", "**", " ", "x1y", " ",
         "**", "Answer", ":", "**", " ", "left.">>
PipeTexts == {TList, TPlot, TError, TQA}

\* The answer texts of every specification.
ApiTexts == ExecTexts \cup PipeTexts

\* What one requests.post + body extraction can do (chatbot.py:49-61):
\*   "ok"        status 200, text at candidates[0].content.parts[0].text
\*   "malformed" status 200, the body lookup raises (KeyError/IndexError/...)
\*   "status"    status other than 200
\*   "exception" requests.post raises (transport failure)
Outcomes == {"ok", "malformed", "status", "exception"}

\* The one book of the model (book_name).
Book == "book"

\* The chapter titles that occur in page texts and chapter lists.
Titles == {"A", "B", "C"}

\* A title that occurs nowhere.
Absent == "Z"

\* The largest number of pages of a document.
MaxPages == 4

\* The number of pages of the long documents.
LongPages == 7

\* Long documents, with room for the window of book.py:62: one title on one
\* of the first pages, possibly another title on a later page, every other
\* page without a title.
LongDocs ==
    {[i \in 1..LongPages |->
        IF i = k THEN {c} ELSE IF i = 5 /\ c2 # c THEN {c2} ELSE {}] :
        k \in 2..3, c \in Titles, c2 \in Titles}

\* A document: its pages in order, each page given by the set of titles that
\* are substrings of its extracted text.  Page i (0-based) is d[i + 1].
Docs == UNION {[1..n -> SUBSET Titles] : n \in 0..MaxPages} \cup LongDocs

RECURSIVE Perms(_)
\* The orderings of the set S, as sequences.
Perms(S) ==
    IF S = {} THEN {<<>>}
    ELSE UNION {{<<x>> \o q : q \in Perms(S \ {x})} : x \in S}

\* The chapter lists: every ordering of every set of titles.
ChapterLists == UNION {Perms(S) : S \in SUBSET Titles}

\* The documents of the pipeline runs.
PipeDocs == { <<{}, {"B"}, {"C"}, {"A"}>>,
              <<{}, {"A"}, {"B"}, {"C"}>>,
              <<>> }

\* ------------------------------------------------------------------- state
VARIABLES
    doc,          \* the PDF of the book: see Docs
    chapter_list, \* find_chapter's argument chapter_list
    chapter_name, \* find_chapter's argument chapter_name
    chapCache,    \* the chapter cache table: [book, chapter, chapter_text] rows
    found,        \* what the last find_chapter call did: see find_chapter
    stage,        \* where generate_chapter_bagrutQnA is
    plot_points_response, \* generate_plot_points' local of the same name
    plot_points_data, \* generate_plot_points' local of the same name
    saved,        \* the PlotPoint records handed to save(), in order
    ret,          \* how the run ended: the returned string or the exception
    log,          \* the steps the run has taken, in order
    reply,        \* the response text handed to the parsers
    qa_source,    \* the (question, answer) pairs reply was built from, or None
    qa_out,       \* what parse_questions_and_answers(reply) returned
    pp_out,       \* what parse_plot_points_response(reply) returned
    parsed,       \* which of the two parsers have run on reply
    cache,      \* the prompt cache table: a set of [prompt, response] rows
    pc,         \* pc[t]: where thread t is inside execute_prompt
    prompt,     \* prompt[t]: the argument `prompt`
    override,   \* override[t]: the argument `override`
    tries,      \* tries[t]: the local `tries`
    summary,    \* summary[t]: the local `summary`
    result,     \* result[t]: the value the call returned
    calls,      \* calls[t]: requests.post invocations made by the current call
    outcomes,   \* outcomes[t]: what each of those invocations did, in order
    cache0,     \* cache0[t]: the cache as it was when the call started
    prev        \* the previous completed call of thread 1 (for "twice in a row")

execVars == <<cache, pc, prompt, override, tries, summary, result, calls,
              outcomes, cache0, prev>>

findVars == <<doc, chapter_list, chapter_name, chapCache, found>>

pipeVars == <<stage, plot_points_response, plot_points_data, saved, ret, log>>

parseVars == <<reply, qa_source, qa_out, pp_out, parsed>>

vars == <<execVars, findVars, pipeVars, parseVars>>

\* -------------------------------------------------------------- the cache
\* functions/prompt_caching.get_prompt: the row stored for the exact prompt
\* string, or None.
get_prompt(c, p) ==
    IF \E e \in c : e.prompt = p
    THEN <<CHOOSE e \in c : e.prompt = p>>
    ELSE None

\* functions/prompt_caching.save_prompt: store the response under the exact
\* prompt string, overwriting any prior row for it.
save_prompt(c, p, s) ==
    {e \in c : e.prompt # p} \cup {[prompt |-> p, response |-> s]}

\* --------------------------------------------------------- execute_prompt
NoCall == [prompt |-> <<>>, override |-> FALSE, result |-> <<>>,
           outcomes |-> <<>>, valid |-> FALSE]

ExecIdle ==
    /\ cache = {}
    /\ pc = [t \in Procs |-> "idle"]
    /\ prompt = [t \in Procs |-> <<>>]
    /\ override = [t \in Procs |-> FALSE]
    /\ tries = [t \in Procs |-> 0]
    /\ summary = [t \in Procs |-> <<>>]
    /\ result = [t \in Procs |-> <<>>]
    /\ calls = [t \in Procs |-> 0]
    /\ outcomes = [t \in Procs |-> <<>>]
    /\ cache0 = [t \in Procs |-> {}]
    /\ prev = NoCall

\* ----------------------------------------------------------- find_chapter
\* functions/prompt_caching.get_chapter: the row cached for (book, chapter),
\* or None.
get_chapter(cc, b, name) ==
    IF \E e \in cc : e.book = b /\ e.chapter = name
    THEN <<CHOOSE e \in cc : e.book = b /\ e.chapter = name>>
    ELSE None

\* functions/prompt_caching.save_chapter: store the text under (book, chapter).
save_chapter(cc, b, text, name) ==
    {e \in cc : ~(e.book = b /\ e.chapter = name)}
        \cup {[book |-> b, chapter |-> name, chapter_text |-> text]}

\* pdf.pages[i].extract_text(): the text of page i, as one token.
extract_text(d, i) == <<ToString(i)>>

\* book.py:42  `chapter in page.extract_text()`
InPage(d, i, chapter) == chapter \in d[i + 1]

\* The set of elements of a list.
Elems(list) == {list[k] : k \in 1..Len(list)}

\* book.py:54  chapter_list.index(chapter_name), 0-based; the first occurrence.
ListIndex(list, name) ==
    (CHOOSE k \in 1..Len(list) :
        list[k] = name /\ \A j \in 1..(k - 1) : list[j] # name) - 1

RECURSIVE ScanPage(_, _, _, _, _)
\* book.py:41-47: the inner loop for page i, from list position k (1-based):
\* the first title of the list found on the page gets i; on the last page
\* the first title tested and not found gets -1; either way the loop breaks.
ScanPage(d, list, chapters, i, k) ==
    IF k > Len(list) THEN chapters
    ELSE IF InPage(d, i, list[k]) THEN [chapters EXCEPT ![list[k]] = i]
    ELSE IF i = Len(d) - 1 THEN [chapters EXCEPT ![list[k]] = -1]
    ELSE ScanPage(d, list, chapters, i, k + 1)

RECURSIVE ScanFrom(_, _, _, _)
\* book.py:40-47: the outer loop, from page i on.
ScanFrom(d, list, chapters, i) ==
    IF i >= Len(d) THEN chapters
    ELSE ScanFrom(d, list, ScanPage(d, list, chapters, i, 1), i + 1)

\* book.py:38-47: chapters = dict.fromkeys(chapter_list, 0), then the scan.
Scan(d, list) == ScanFrom(d, list, [c \in Elems(list) |-> 0], 0)

RECURSIVE Extract(_, _, _)
\* book.py:64-66: the text of pages i..end, each followed by " ".
Extract(d, i, end) ==
    IF i > end THEN <<>>
    ELSE extract_text(d, i) \o <<" ">> \o Extract(d, i + 1, end)

\* The pages start..end in order.
PageRange(start, end) ==
    [k \in 1..(IF end >= start THEN end - start + 1 ELSE 0) |-> start + k - 1]

\* What a find_chapter call does:
\*   kind   "text" (a string is returned), "None" (None is returned),
\*          "KeyError" or "IndexError" (the exception leaves find_chapter)
\*   cached whether the text came from the chapter cache (book.py:33-34)
\*   text   the returned chapter_text
\*   start, end  the locals of the same name (-2 where never assigned)
\*   read   the page indices whose text the extraction loop read, in order
\*   cache  the chapter cache after the call
Outcome(kind, cached, text, start, end, read, cc) ==
    [kind |-> kind, cached |-> cached, text |-> text, start |-> start,
     end |-> end, read |-> read, cache |-> cc]

\* book.py:32-68
find_chapter(d, cc, name, list) ==
    IF get_chapter(cc, Book, name) # None
    THEN Outcome("text", TRUE, get_chapter(cc, Book, name)[1].chapter_text,
                 -2, -2, <<>>, cc)
    ELSE
    LET chapters == Scan(d, list)
        n == Len(d)
    IN  IF name \notin DOMAIN chapters                        \* line 51
        THEN Outcome("KeyError", FALSE, <<>>, -2, -2, <<>>, cc)
        ELSE IF chapters[name] = -1 \/ chapters[name] = 0     \* line 51
        THEN Outcome("None", FALSE, <<>>, -2, -2, <<>>, cc)
        ELSE
        LET index == ListIndex(list, name)
            start == chapters[name]
        IN  IF index + 1 >= Len(list)                         \* line 57
            THEN Outcome("IndexError", FALSE, <<>>, start, -2, <<>>, cc)
            ELSE
            LET next == chapters[list[index + 2]]
                end == IF index = Len(list) - 1 THEN n - 1
                       ELSE IF next <= 0 THEN index + 5
                       ELSE next
            IN  IF end >= start /\ end > n - 1                \* line 65
                THEN Outcome("IndexError", FALSE, <<>>, start, end,
                             PageRange(start, n - 1), cc)
                ELSE Outcome("text", FALSE, Extract(d, start, end), start, end,
                             PageRange(start, end),
                             save_chapter(cc, Book, Extract(d, start, end), name))

NoOutcome == Outcome("idle", FALSE, <<>>, -2, -2, <<>>, {})

FindIdle ==
    /\ doc = <<>>
    /\ chapter_list = <<>>
    /\ chapter_name = ""
    /\ chapCache = {}
    /\ found = NoOutcome

\* The caller runs find_chapter(Book, name, chapter_list).
FindChapter(name) ==
    /\ chapter_name' = name
    /\ found' = find_chapter(doc, chapCache, name, chapter_list)
    /\ chapCache' = found'.cache
    /\ UNCHANGED <<doc, chapter_list>>
    /\ UNCHANGED <<execVars, pipeVars, parseVars>>

\* -------------------------------------------------------------- the texts
\* A text is a sequence of tokens; its string is their concatenation.  The
\* tokens are "**", ":", white space, digit runs, and words; "*" and ":"
\* occur in no other token, and a word has no white space at its ends.
WhiteTokens == {" ", "\n"}

\* The digit runs (regex \d+).
DigitTokens == {"1", "2"}

\* The words made of letters only (regex class [A-Za-z]).
AlphaWords == {"Decisions", "Conflicts", "Chapter", "Summary", "Answer",
               "Question", "Intro", "Error", "Notes", "decisions", "conflicts",
               "chapter", "summary", "answer", "question", "intro", "error",
               "notes"}

\* str.lower() on one token.
Lower(tok) ==
    CASE tok = "Decisions" -> "decisions"
      [] tok = "Conflicts" -> "conflicts"
      [] tok = "Chapter" -> "chapter"
      [] tok = "Summary" -> "summary"
      [] tok = "Answer" -> "answer"
      [] tok = "Question" -> "question"
      [] tok = "Intro" -> "intro"
      [] tok = "Error" -> "error"
      [] tok = "Notes" -> "notes"
      [] OTHER -> tok

\* text[a..b-1] for 1-based a, b: Python's text[a-1:b-1], empty when b <= a.
Slice(text, a, b) == SubSeq(text, a, b - 1)

RECURSIVE LStrip(_)
LStrip(text) ==
    IF text # <<>> /\ Head(text) \in WhiteTokens THEN LStrip(Tail(text)) ELSE text

RECURSIVE RStrip(_)
RStrip(text) ==
    IF text # <<>> /\ text[Len(text)] \in WhiteTokens
    THEN RStrip(SubSeq(text, 1, Len(text) - 1))
    ELSE text

\* str.strip()
Strip(text) == RStrip(LStrip(text))

\* Whether the token sequence pat occurs in text at position i.
At(text, i, pat) ==
    /\ i >= 1
    /\ i + Len(pat) - 1 <= Len(text)
    /\ SubSeq(text, i, i + Len(pat) - 1) = pat

\* The first position >= i where pat occurs in text, or 0.
Find(text, i, pat) ==
    IF \E k \in i..Len(text) : At(text, k, pat)
    THEN CHOOSE k \in i..Len(text) :
            At(text, k, pat) /\ \A j \in i..(k - 1) : ~At(text, j, pat)
    ELSE 0

\* chatbot.py:73  "Error" in plot_points_response
HasError(text) == \E i \in 1..Len(text) : text[i] = "Error"

\* text.split('**')[-1]: what follows the last "**" (all of it if none).
AfterLastDelim(text) ==
    IF \E i \in 1..Len(text) : text[i] = "**"
    THEN LET last == CHOOSE i \in 1..Len(text) :
                        text[i] = "**" /\ \A j \in (i + 1)..Len(text) : text[j] # "**"
         IN  SubSeq(text, last + 1, Len(text))
    ELSE text

\* ----------------------------------------------- parse_plot_points_response
\* The eight field keys of chatbot.py:104-113, each as its tokens.
FieldKeys ==
    << <<"death", "_", "and", "_", "tragic", "_", "events">>,
       <<"decisions">>,
       <<"conflicts">>,
       <<"character", "_", "development">>,
       <<"symbolism", "_", "and", "_", "imagery">>,
       <<"foreshadowing">>,
       <<"setting", "_", "description">>,
       <<"chapter", "_", "summary">> >>

\* chatbot.py:115  \*\*([A-Za-z\s]+):\*\* matched at position i: the position
\* of the ":" ending the label, or 0 if there is no match at i.
HeaderColon(text, i) ==
    IF /\ text[i] = "**"
       /\ \E j \in (i + 2)..(Len(text) - 1) :
             /\ \A k \in (i + 1)..(j - 1) : text[k] \in AlphaWords \cup WhiteTokens
             /\ text[j] = ":" /\ text[j + 1] = "**"
    THEN CHOOSE j \in (i + 2)..(Len(text) - 1) :
             /\ \A k \in (i + 1)..(j - 1) : text[k] \in AlphaWords \cup WhiteTokens
             /\ text[j] = ":" /\ text[j + 1] = "**"
    ELSE 0

RECURSIVE Headers(_, _)
\* chatbot.py:116  list(pattern.finditer(response)), from position i on:
\* the matches left to right, not overlapping, as [start, label].
Headers(text, i) ==
    IF i > Len(text) THEN <<>>
    ELSE LET j == HeaderColon(text, i)
         IN  IF j = 0 THEN Headers(text, i + 1)
             ELSE <<[start |-> i, label |-> SubSeq(text, i + 1, j - 1)]>>
                     \o Headers(text, j + 2)

\* chatbot.py:117  match.group(1).strip().lower().replace(' ', '_')
NormLabel(label) ==
    LET t == Strip(label)
    IN  [k \in 1..Len(t) |-> IF t[k] = " " THEN "_" ELSE Lower(t[k])]

RECURSIVE DictOf(_, _)
\* chatbot.py:117  the dict comprehension over the first n matches: an
\* ordered dict, as a sequence of [key, pos]; a key seen again keeps its
\* place in the order and takes the later match's start.
DictOf(ms, n) ==
    IF n = 0 THEN <<>>
    ELSE LET d == DictOf(ms, n - 1)
             key == NormLabel(ms[n].label)
         IN  IF \E k \in 1..Len(d) : d[k].key = key
             THEN [k \in 1..Len(d) |->
                     IF d[k].key = key THEN [key |-> key, pos |-> ms[n].start]
                     ELSE d[k]]
             ELSE Append(d, [key |-> key, pos |-> ms[n].start])

\* chatbot.py:104-113
EmptyPlotPoints == [k \in Elems(FieldKeys) |-> <<>>]

RECURSIVE FillSections(_, _, _, _)
\* chatbot.py:121-125: the loop over the sections, from the i-th on.
FillSections(text, sections, data, i) ==
    IF i > Len(sections) THEN data
    ELSE LET start_pos == sections[i].pos
             end_pos == IF i + 1 <= Len(sections) THEN sections[i + 1].pos
                        ELSE Len(text) + 1
             content == Strip(AfterLastDelim(Slice(text, start_pos, end_pos)))
             key == sections[i].key
         IN  FillSections(text, sections,
                 [k \in DOMAIN data \cup {key} |->
                     IF k = key THEN content ELSE data[k]],
                 i + 1)

\* chatbot.py:101-131
parse_plot_points_response(response) ==
    LET matches == Headers(response, 1)
        sections == DictOf(matches, Len(matches))
        data == FillSections(response, sections, EmptyPlotPoints, 1)
    IN  [k \in DOMAIN data |-> Strip(data[k])]

\* ------------------------------------------- parse_questions_and_answers
\* chatbot.py:145  \*\*Question \d+: matched at position i
QuestionAt(text, i) ==
    /\ i + 4 <= Len(text)
    /\ text[i] = "**" /\ text[i + 1] = "Question" /\ text[i + 2] = " "
    /\ text[i + 3] \in DigitTokens /\ text[i + 4] = ":"

\* The first position >= i where the question marker matches, or 0.
NextQuestion(text, i) ==
    IF \E k \in i..Len(text) : QuestionAt(text, k)
    THEN CHOOSE k \in i..Len(text) :
            QuestionAt(text, k) /\ \A j \in i..(k - 1) : ~QuestionAt(text, j)
    ELSE 0

RECURSIVE SplitQuestions(_, _)
\* chatbot.py:145  re.split with the marker captured, from position i on:
\* the parts [segment, marker, segment, marker, ..., segment].
SplitQuestions(text, i) ==
    LET k == NextQuestion(text, i)
    IN  IF k = 0 THEN <<SubSeq(text, i, Len(text))>>
        ELSE <<SubSeq(text, i, k - 1), SubSeq(text, k, k + 4)>>
                \o SplitQuestions(text, k + 5)

AnswerMarker == <<"**", "Answer", ":", "**">>

\* chatbot.py:151  part.split("**Answer:**")[1].strip() if the marker is in
\* the part, else ''.
AnswerOf(part) ==
    LET a == Find(part, 1, AnswerMarker)
    IN  IF a = 0 THEN <<>>
        ELSE LET from == a + Len(AnswerMarker)
                 b == Find(part, from, AnswerMarker)
             IN  Strip(SubSeq(part, from, IF b = 0 THEN Len(part) ELSE b - 1))

\* chatbot.py:134-160: one record per captured marker, in order.
parse_questions_and_answers(response_text) ==
    LET parts == SplitQuestions(response_text, 1)
    IN  [n \in 1..((Len(parts) - 1) \div 2) |->
            [question |-> Strip(parts[2 * n]),
             answer |-> IF 2 * n + 1 <= Len(parts) THEN AnswerOf(parts[2 * n + 1])
                        ELSE <<>>]]

RECURSIVE FormatFrom(_, _)
\* chatbot.py:198-205: the lines of the records from the i-th on.
FormatFrom(qas, i) ==
    IF i > Len(qas) THEN <<>>
    ELSE LET question == Strip(qas[i].question)
             answer == Strip(qas[i].answer)
         IN  (IF question # <<>> /\ answer # <<>>
              THEN << <<"Q: ">> \o question, <<"A: ">> \o answer \o <<"\n">> >>
              ELSE <<>>)
             \o FormatFrom(qas, i + 1)

RECURSIVE Join(_, _)
\* sep.join(lines)
Join(sep, lines) ==
    IF lines = <<>> THEN <<>>
    ELSE IF Len(lines) = 1 THEN lines[1]
    ELSE lines[1] \o sep \o Join(sep, Tail(lines))

\* chatbot.py:185-208
format_bagrut_output(questions_and_answers) ==
    Join(<<"\n">>, FormatFrom(questions_and_answers, 1))

\* ------------------------------------------------- the parsers' inputs
\* The largest number of pieces of a free-form response.
MaxChunks == 4

\* The largest number of question/answer pairs of a Q&A response.
MaxQuestions == 2

\* A section header as the plot-points answer writes it: **Label:**
Header(label) == <<"**">> \o label \o <<":", "**">>

\* The pieces a free-form response is concatenated from: headers with known
\* labels, a header with an unknown label, content, and a stray "**".
Chunks ==
    { Header(<<"Decisions">>), Header(<<"Conflicts">>),
      Header(<<"Chapter", " ", "Summary">>), Header(<<"Notes">>),
      <<" ", "She left.", "\n">>, <<" ", "Man vs self.">>, <<"**">> }

RECURSIVE ChunkTexts(_)
\* The concatenations of at most n pieces.
ChunkTexts(n) ==
    IF n = 0 THEN {<<>>}
    ELSE LET shorter == ChunkTexts(n - 1)
         IN  shorter \cup {t \o c : t \in shorter, c \in Chunks}

\* The question marker as the answers prompt asks for it: **Question k:**
QuestionMarker(k) == <<"**", "Question", " ", ToString(k), ":", "**">>

\* The texts before the first question, the question texts, the answer texts.
Preambles == {<<>>, <<"Intro", " ">>}
QuestionTexts == {<<" ", "What happened?", " ">>, <<" ", "Why?", "\n">>}
AnswerTexts == {<<" ", "She left.", " ">>, <<" ", "Fear.">>}

\* The sequences of at most MaxQuestions (question, answer) pairs.
QAPairs ==
    UNION {[1..n -> [q : QuestionTexts, a : AnswerTexts]] : n \in 0..MaxQuestions}

RECURSIVE RenderQA(_, _)
\* The Q&A response made of the pairs from the k-th on: for each, the
\* marker, the question text, the answer marker and the answer text.
RenderQA(pairs, k) ==
    IF k > Len(pairs) THEN <<>>
    ELSE QuestionMarker(k) \o pairs[k].q \o AnswerMarker \o pairs[k].a
            \o RenderQA(pairs, k + 1)

\* ------------------------------------------------------------ the pipeline
\* functions/formatting.chapters_to_list: the chapter titles of the listing
\* answer, in order.
chapters_to_list(text) == SelectSeq(text, LAMBDA tok : tok \in Titles)

\* chatbot/prompt_generating: each prompt holds its template's name and the
\* texts put into it.
build_chapter_list_prompt(b) == <<"chapter_list", b>>

build_plot_points_prompt(b, name, page_content) ==
    <<"plot_points", b, name>>
        \o (IF page_content = None THEN <<"None">> ELSE page_content[1])

RECURSIVE RenderFields(_, _)
\* The eight fields of plot_points_data, from the i-th on, one per line.
RenderFields(data, i) ==
    IF i > Len(FieldKeys) THEN <<>>
    ELSE data[FieldKeys[i]] \o <<"\n">> \o RenderFields(data, i + 1)

build_bagrut_questions_prompt(b, name, data) ==
    <<"bagrut_questions", b, name>> \o RenderFields(data, 1)

build_bagrut_answers_prompt(b, name, data, combined_questions) ==
    <<"bagrut_answers", b, name>> \o RenderFields(data, 1) \o combined_questions

\* chatbot.py:79
ChapterNumber(list, name) ==
    IF name \in Elems(list) THEN ListIndex(list, name) + 1 ELSE 0

\* chatbot.py:81-93
PlotPoint(b, name, list, data) ==
    [book_name |-> b, chapter_name |-> name,
     chapter_number |-> ChapterNumber(list, name),
     fields |-> [k \in Elems(FieldKeys) |-> data[k]]]

\* find_chapter's return value, as an Optional text.
PageContent(o) == IF o.kind = "text" THEN <<o.text>> ELSE None

NoReturn == [kind |-> "none", val |-> <<>>]

PipeIdle ==
    /\ stage = "idle"
    /\ plot_points_response = <<>>
    /\ plot_points_data = EmptyPlotPoints
    /\ saved = <<>>
    /\ ret = NoReturn
    /\ log = <<>>

ParseIdle ==
    /\ reply = <<>>
    /\ qa_source = None
    /\ qa_out = <<>>
    /\ pp_out = EmptyPlotPoints
    /\ parsed = {}

\* The caller enters execute_prompt(p, override=ov) on thread t.
Enter(t, p, ov) ==
    /\ pc' = [pc EXCEPT ![t] = "get"]
    /\ prompt' = [prompt EXCEPT ![t] = p]
    /\ override' = [override EXCEPT ![t] = ov]
    /\ tries' = [tries EXCEPT ![t] = 0]
    /\ summary' = [summary EXCEPT ![t] = <<>>]
    /\ result' = [result EXCEPT ![t] = <<>>]
    /\ calls' = [calls EXCEPT ![t] = 0]
    /\ outcomes' = [outcomes EXCEPT ![t] = <<>>]
    /\ cache0' = [cache0 EXCEPT ![t] = cache]
    /\ UNCHANGED cache

\* GetPrompt with a fault: the cache check is dropped, every call goes remote.
GetPrompt_NoFastPath(t) ==
    /\ pc[t] = "get"
    /\ tries' = [tries EXCEPT ![t] = 0]
    /\ pc' = [pc EXCEPT ![t] = "loop"]
    /\ UNCHANGED <<cache, prompt, override, summary, result, calls, outcomes,
                   cache0, prev>>

\* GetPrompt with a fault: `override` is not consulted.
GetPrompt_IgnoreOverride(t) ==
    /\ pc[t] = "get"
    /\ LET cached_response == get_prompt(cache, prompt[t])
       IN  IF cached_response # None
           THEN /\ result' = [result EXCEPT ![t] = cached_response[1].response]
                /\ pc' = [pc EXCEPT ![t] = "done"]
                /\ UNCHANGED tries
           ELSE /\ tries' = [tries EXCEPT ![t] = 0]
                /\ pc' = [pc EXCEPT ![t] = "loop"]
                /\ UNCHANGED result
    /\ UNCHANGED <<cache, prompt, override, summary, calls, outcomes, cache0, prev>>

\* GetPrompt with a fault: the test of `override` is inverted.
GetPrompt_InvertedOverride(t) ==
    /\ pc[t] = "get"
    /\ LET cached_response == get_prompt(cache, prompt[t])
       IN  IF cached_response # None /\ override[t]
           THEN /\ result' = [result EXCEPT ![t] = cached_response[1].response]
                /\ pc' = [pc EXCEPT ![t] = "done"]
                /\ UNCHANGED tries
           ELSE /\ tries' = [tries EXCEPT ![t] = 0]
                /\ pc' = [pc EXCEPT ![t] = "loop"]
                /\ UNCHANGED result
    /\ UNCHANGED <<cache, prompt, override, summary, calls, outcomes, cache0, prev>>

\* chatbot.py:35-44: the cache check, the sole fast path.
GetPrompt(t) ==
    /\ pc[t] = "get"
    /\ LET cached_response == get_prompt(cache, prompt[t])
       IN  IF cached_response # None /\ ~override[t]
           THEN /\ result' = [result EXCEPT ![t] = cached_response[1].response]
                /\ pc' = [pc EXCEPT ![t] = "done"]
                /\ UNCHANGED tries
           ELSE /\ tries' = [tries EXCEPT ![t] = 0]
                /\ pc' = [pc EXCEPT ![t] = "loop"]
                /\ UNCHANGED result
    /\ UNCHANGED <<cache, prompt, override, summary, calls, outcomes, cache0, prev>>

\* Post with a fault: the body lookup sits outside the try block, so a
\* malformed body's exception leaves execute_prompt.
Post_MalformedEscapes(t, o, txt) ==
    /\ pc[t] = "loop"
    /\ tries[t] < max_tries
    /\ calls' = [calls EXCEPT ![t] = @ + 1]
    /\ outcomes' = [outcomes EXCEPT ![t] = Append(@, o)]
    /\ IF o = "ok"
       THEN /\ summary' = [summary EXCEPT ![t] = txt]
            /\ pc' = [pc EXCEPT ![t] = "save"]
            /\ UNCHANGED tries
       ELSE IF o = "malformed"
       THEN /\ pc' = [pc EXCEPT ![t] = "raised"]
            /\ UNCHANGED <<summary, tries>>
       ELSE /\ tries' = [tries EXCEPT ![t] = @ + 1]
            /\ UNCHANGED <<summary, pc>>
    /\ UNCHANGED <<cache, prompt, override, result, cache0, prev>>

\* Post with a fault: the loop condition is tries <= max_tries.
Post_OneMoreTry(t, o, txt) ==
    /\ pc[t] = "loop"
    /\ tries[t] <= max_tries
    /\ calls' = [calls EXCEPT ![t] = @ + 1]
    /\ outcomes' = [outcomes EXCEPT ![t] = Append(@, o)]
    /\ IF o = "ok"
       THEN /\ summary' = [summary EXCEPT ![t] = txt]
            /\ pc' = [pc EXCEPT ![t] = "save"]
            /\ UNCHANGED tries
       ELSE /\ tries' = [tries EXCEPT ![t] = @ + 1]
            /\ UNCHANGED <<summary, pc>>
    /\ UNCHANGED <<cache, prompt, override, result, cache0, prev>>

\* chatbot.py:46-61: one pass of the while loop: requests.post and what
\* follows from its outcome.  Every non-success outcome is absorbed by the
\* else branch or the except clause and counts one try.
Post(t, o, txt) ==
    /\ pc[t] = "loop"
    /\ tries[t] < max_tries
    /\ calls' = [calls EXCEPT ![t] = @ + 1]
    /\ outcomes' = [outcomes EXCEPT ![t] = Append(@, o)]
    /\ IF o = "ok"
       THEN /\ summary' = [summary EXCEPT ![t] = txt]
            /\ pc' = [pc EXCEPT ![t] = "save"]
            /\ UNCHANGED tries
       ELSE /\ tries' = [tries EXCEPT ![t] = @ + 1]
            /\ UNCHANGED <<summary, pc>>
    /\ UNCHANGED <<cache, prompt, override, result, cache0, prev>>

\* SaveAndReturn with a fault: the answer is returned without being cached.
SaveAndReturn_NoSave(t) ==
    /\ pc[t] = "save"
    /\ result' = [result EXCEPT ![t] = summary[t]]
    /\ pc' = [pc EXCEPT ![t] = "done"]
    /\ UNCHANGED <<cache, prompt, override, tries, summary, calls, outcomes,
                   cache0, prev>>

\* chatbot.py:53-55: save_prompt(prompt, summary); return summary
SaveAndReturn(t) ==
    /\ pc[t] = "save"
    /\ cache' = save_prompt(cache, prompt[t], summary[t])
    /\ result' = [result EXCEPT ![t] = summary[t]]
    /\ pc' = [pc EXCEPT ![t] = "done"]
    /\ UNCHANGED <<prompt, override, tries, summary, calls, outcomes, cache0, prev>>

\* Exhausted with a fault: the sentinel is cached like an answer.
Exhausted_SavesSentinel(t) ==
    /\ pc[t] = "loop"
    /\ ~(tries[t] < max_tries)
    /\ cache' = save_prompt(cache, prompt[t], Sentinel)
    /\ result' = [result EXCEPT ![t] = Sentinel]
    /\ pc' = [pc EXCEPT ![t] = "done"]
    /\ UNCHANGED <<prompt, override, tries, summary, calls, outcomes, cache0, prev>>

\* chatbot.py:46,63: the loop condition fails; return the sentinel.
Exhausted(t) ==
    /\ pc[t] = "loop"
    /\ ~(tries[t] < max_tries)
    /\ result' = [result EXCEPT ![t] = Sentinel]
    /\ pc' = [pc EXCEPT ![t] = "done"]
    /\ UNCHANGED <<cache, prompt, override, tries, summary, calls, outcomes, cache0, prev>>

\* chatbot.py:225, 67, 19-21: generate_chapter_bagrutQnA enters
\* generate_plot_points, which asks for the chapter list.
GetChapterList ==
    /\ stage = "start"
    /\ Enter(1, build_chapter_list_prompt(Book), FALSE)
    /\ stage' = "listing"
    /\ log' = Append(log, "list")
    /\ UNCHANGED <<prev, findVars, plot_points_response, plot_points_data,
                   saved, ret>>
    /\ UNCHANGED parseVars

\* chatbot.py:22, 67-71: the list is parsed, find_chapter runs, and, unless
\* it raised, the plot-points prompt is built from whatever it returned
\* and executed with override=True.
LocateChapter ==
    /\ stage = "listing" /\ pc[1] = "done"
    /\ chapter_list' = chapters_to_list(result[1])
    /\ found' = find_chapter(doc, chapCache, chapter_name, chapter_list')
    /\ chapCache' = found'.cache
    /\ IF found'.kind \in {"KeyError", "IndexError"}
       THEN /\ stage' = "raised"
            /\ ret' = [kind |-> found'.kind, val |-> <<>>]
            /\ log' = Append(log, "find")
            /\ UNCHANGED execVars
       ELSE /\ Enter(1, build_plot_points_prompt(Book, chapter_name,
                                                 PageContent(found')), TRUE)
            /\ stage' = "plotting"
            /\ log' = log \o <<"find", "plot">>
            /\ UNCHANGED <<prev, ret>>
    /\ UNCHANGED <<doc, chapter_name, plot_points_response, plot_points_data,
                   saved>>
    /\ UNCHANGED parseVars

\* chatbot.py:73-98, 227-231, 171-172: an answer holding "Error" ends the
\* run with the error sentence; any other answer is parsed, the PlotPoint
\* is saved, and generate_bagrut_qa asks for the questions.
PlotPoints ==
    /\ stage = "plotting" /\ pc[1] = "done"
    /\ plot_points_response' = result[1]
    /\ IF HasError(result[1])
       THEN /\ ret' = [kind |-> "str",
                       val |-> <<"Error generating plot points for ",
                                 chapter_name, ": ">> \o result[1]]
            /\ stage' = "returned"
            /\ log' = Append(log, "plotted")
            /\ UNCHANGED <<execVars, plot_points_data, saved>>
       ELSE /\ plot_points_data' = parse_plot_points_response(result[1])
            /\ saved' = Append(saved, PlotPoint(Book, chapter_name, chapter_list,
                                                plot_points_data'))
            /\ Enter(1, build_bagrut_questions_prompt(Book, chapter_name,
                                                      plot_points_data'), FALSE)
            /\ stage' = "questions"
            /\ log' = log \o <<"plotted", "save", "questions">>
            /\ UNCHANGED <<prev, ret>>
    /\ UNCHANGED findVars
    /\ UNCHANGED parseVars

\* chatbot.py:175-177: the answers prompt, built on the questions answer.
Answers ==
    /\ stage = "questions" /\ pc[1] = "done"
    /\ Enter(1, build_bagrut_answers_prompt(Book, chapter_name,
                                            plot_points_data, result[1]), FALSE)
    /\ stage' = "answers"
    /\ log' = Append(log, "answers")
    /\ UNCHANGED <<prev, findVars, plot_points_response, plot_points_data,
                   saved, ret>>
    /\ UNCHANGED parseVars

\* chatbot.py:180-182, 234-236: parse, format, return.
FormatAndReturn ==
    /\ stage = "answers" /\ pc[1] = "done"
    /\ ret' = [kind |-> "str",
               val |-> format_bagrut_output(
                           parse_questions_and_answers(result[1]))]
    /\ stage' = "returned"
    /\ UNCHANGED <<execVars, findVars, plot_points_response, plot_points_data,
                   saved, log>>
    /\ UNCHANGED parseVars

\* parse_questions_and_answers(reply) is called.
ParseQuestions ==
    /\ "qa" \notin parsed
    /\ qa_out' = parse_questions_and_answers(reply)
    /\ parsed' = parsed \cup {"qa"}
    /\ UNCHANGED <<reply, qa_source, pp_out>>
    /\ UNCHANGED <<execVars, findVars, pipeVars>>

\* parse_plot_points_response(reply) is called.
ParsePlotPoints ==
    /\ "pp" \notin parsed
    /\ pp_out' = parse_plot_points_response(reply)
    /\ parsed' = parsed \cup {"pp"}
    /\ UNCHANGED <<reply, qa_source, qa_out>>
    /\ UNCHANGED <<execVars, findVars, pipeVars>>

\* The sequential driver of SpecExec: one call after another on thread 1,
\* remembering the call that has just returned.
Call(p, ov) ==
    /\ pc[1] \in {"idle", "done"}
    /\ prev' = IF pc[1] = "done"
               THEN [prompt |-> prompt[1], override |-> override[1],
                     result |-> result[1], outcomes |-> outcomes[1],
                     valid |-> TRUE]
               ELSE prev
    /\ Enter(1, p, ov)
    /\ UNCHANGED <<findVars, pipeVars, parseVars>>

InitExec == ExecIdle /\ FindIdle /\ PipeIdle /\ ParseIdle

NextExec ==
    \/ \E p \in ExecPrompts, ov \in BOOLEAN : Call(p, ov)
    \/ GetPrompt(1) /\ UNCHANGED <<findVars, pipeVars, parseVars>>
    \/ \E o \in Outcomes, txt \in ExecTexts :
          Post(1, o, txt) /\ UNCHANGED <<findVars, pipeVars, parseVars>>
    \/ SaveAndReturn(1) /\ UNCHANGED <<findVars, pipeVars, parseVars>>
    \/ Exhausted(1) /\ UNCHANGED <<findVars, pipeVars, parseVars>>

SpecExec == InitExec /\ [][NextExec]_vars

\* find_chapter called again and again on one document with one chapter list.
InitFind ==
    /\ ExecIdle
    /\ PipeIdle
    /\ ParseIdle
    /\ doc \in Docs
    /\ chapter_list \in ChapterLists
    /\ chapter_name = ""
    /\ chapCache = {}
    /\ found = NoOutcome

NextFind ==
    \E name \in Titles \cup {Absent} : FindChapter(name)

SpecFind == InitFind /\ [][NextFind]_vars

\* One run of generate_chapter_bagrutQnA(Book, chapter_name).  The chapter
\* cache is empty or as an earlier find_chapter call for the chapter, with
\* whatever chapter list, left it.
InitPipe ==
    /\ ExecIdle
    /\ ParseIdle
    /\ doc \in PipeDocs
    /\ chapter_list = <<>>
    /\ chapter_name \in Titles \cup {Absent}
    /\ chapCache \in {find_chapter(doc, {}, chapter_name, l).cache :
                         l \in ChapterLists}
    /\ found = NoOutcome
    /\ stage = "start"
    /\ plot_points_response = <<>>
    /\ plot_points_data = EmptyPlotPoints
    /\ saved = <<>>
    /\ ret = NoReturn
    /\ log = <<>>

NextPipe ==
    \/ GetChapterList
    \/ LocateChapter
    \/ PlotPoints
    \/ Answers
    \/ FormatAndReturn
    \/ GetPrompt(1) /\ UNCHANGED <<findVars, pipeVars, parseVars>>
    \/ \E o \in Outcomes, txt \in PipeTexts :
          Post(1, o, txt) /\ UNCHANGED <<findVars, pipeVars, parseVars>>
    \/ SaveAndReturn(1) /\ UNCHANGED <<findVars, pipeVars, parseVars>>
    \/ Exhausted(1) /\ UNCHANGED <<findVars, pipeVars, parseVars>>

SpecPipe == InitPipe /\ [][NextPipe]_vars

\* The two parsers applied to one response: a free-form text, or a Q&A
\* response built from a preamble and question/answer pairs.
InitParse ==
    /\ ExecIdle
    /\ FindIdle
    /\ PipeIdle
    /\ \/ /\ reply \in ChunkTexts(MaxChunks)
          /\ qa_source = None
       \/ \E pre \in Preambles, pairs \in QAPairs :
             /\ reply = pre \o RenderQA(pairs, 1)
             /\ qa_source = <<pairs>>
    /\ qa_out = <<>>
    /\ pp_out = EmptyPlotPoints
    /\ parsed = {}

NextParse ==
    \/ ParseQuestions
    \/ ParsePlotPoints

SpecParse == InitParse /\ [][NextParse]_vars

\* The prompt of the two concurrent calls.
ConcPrompt == <<"p">>

\* Thread t enters execute_prompt(ConcPrompt, override=ov); each thread
\* makes one call.
Start(t, ov) ==
    /\ pc[t] = "idle"
    /\ Enter(t, ConcPrompt, ov)
    /\ UNCHANGED prev

\* Two threads each run execute_prompt once for the same prompt, starting
\* from an empty cache; their steps (the cache read of line 35, each pass of
\* the loop, the cache write of line 53) interleave freely.
InitConc == ExecIdle /\ FindIdle /\ PipeIdle /\ ParseIdle

NextConc ==
    \E t \in Procs :
        \/ \E ov \in BOOLEAN : Start(t, ov) /\ UNCHANGED <<findVars, pipeVars, parseVars>>
        \/ GetPrompt(t) /\ UNCHANGED <<findVars, pipeVars, parseVars>>
        \/ \E o \in Outcomes, txt \in ExecTexts :
              Post(t, o, txt) /\ UNCHANGED <<findVars, pipeVars, parseVars>>
        \/ SaveAndReturn(t) /\ UNCHANGED <<findVars, pipeVars, parseVars>>
        \/ Exhausted(t) /\ UNCHANGED <<findVars, pipeVars, parseVars>>

SpecConc == InitConc /\ [][NextConc]_vars

\* ------------------------------------------------- claims on execute_prompt
\* A step of the call in progress on thread t.
ExecStep(t) ==
    \/ GetPrompt(t)
    \/ \E o \in Outcomes, txt \in ApiTexts : Post(t, o, txt)
    \/ SaveAndReturn(t)
    \/ Exhausted(t)

Failed(o) == o # "ok"

\* The responses cached for prompt p in cache c.
Cached(c, p) == {e.response : e \in {r \in c : r.prompt = p}}

\* C1: execute_prompt never raises: whatever the prompt, the cache, the
\* override flag and the remote outcomes (well-formed 200, malformed 200,
\* non-200, transport exception), the call is never in a raised state, can
\* always take its next step, issues at most max_tries remote calls, and
\* returns either the cached response, the text of a successful response,
\* or exactly the sentinel.
C1_NeverRaises ==
    /\ pc[1] # "raised"
    /\ pc[1] \in {"idle", "get", "loop", "save", "done"}
    /\ pc[1] \in {"get", "loop", "save"} => ENABLED ExecStep(1)
    /\ calls[1] <= max_tries /\ tries[1] <= max_tries
    /\ pc[1] = "done" =>
          \/ result[1] = Sentinel
          \/ /\ calls[1] = 0
             /\ result[1] \in Cached(cache0[1], prompt[1])
          \/ /\ calls[1] > 0
             /\ outcomes[1][calls[1]] = "ok"
             /\ result[1] \in ApiTexts

C1_Witness ==
    /\ pc[1] = "done"
    /\ override[1]
    /\ Cached(cache0[1], prompt[1]) # {}
    /\ outcomes[1] = <<"malformed", "exception", "ok">>
    /\ prev.valid /\ prev.outcomes = <<"status", "malformed", "exception">>

\* C2: retry ceiling: a call whose first three attempts all meet a
\* non-success outcome has issued exactly 3 remote calls, returns the
\* sentinel, and leaves the prompt cache as it was before the call.
C2_RetryCeiling ==
    (/\ pc[1] = "done"
     /\ Len(outcomes[1]) >= 3
     /\ \A i \in 1..3 : Failed(outcomes[1][i]))
    => /\ calls[1] = 3
       /\ Len(outcomes[1]) = 3
       /\ result[1] = Sentinel
       /\ cache = cache0[1]

C2_Witness ==
    /\ pc[1] = "done"
    /\ outcomes[1] = <<"status", "exception", "malformed">>
    /\ result[1] = Sentinel
    /\ cache # {}

\* C3: when the first two attempts fail and the third succeeds with text
\* t, the call returns t with no further remote call, and the cache then
\* holds exactly one row for that exact prompt, whose response is t.
C3_SuccessAfterTwoFailures ==
    (/\ pc[1] = "done"
     /\ Len(outcomes[1]) >= 3
     /\ Failed(outcomes[1][1]) /\ Failed(outcomes[1][2])
     /\ outcomes[1][3] = "ok")
    => /\ calls[1] = 3
       /\ Len(outcomes[1]) = 3
       /\ result[1] = summary[1]
       /\ Cardinality({e \in cache : e.prompt = prompt[1]}) = 1
       /\ Cached(cache, prompt[1]) = {summary[1]}

C3_Witness ==
    /\ pc[1] = "done"
    /\ outcomes[1] = <<"status", "exception", "ok">>
    /\ Cached(cache0[1], prompt[1]) # {}
    /\ Cached(cache0[1], prompt[1]) # {summary[1]}
    /\ Cardinality(cache) = 2

\* Thread 1 has just returned from the second of two calls in a row with
\* the same exact prompt, neither with override.
TwiceInARow ==
    /\ pc[1] = "done"
    /\ prev.valid
    /\ prev.prompt = prompt[1]
    /\ ~prev.override /\ ~override[1]

\* The previous call exhausted its attempts.
PrevExhausted ==
    /\ Len(prev.outcomes) > 0
    /\ Failed(prev.outcomes[Len(prev.outcomes)])

\* C4 as stated: the second of two calls in a row with the same prompt and
\* no override issues zero remote calls and returns the same string as the
\* first, whatever the remote API did during the first call.
C4_Idempotent_Original ==
    TwiceInARow => calls[1] = 0 /\ result[1] = prev.result

\* C4 amended: the same, provided the first call did not exhaust its
\* attempts (it returned a cached response or a successful remote answer).
C4_IdempotentAfterAnswer ==
    (TwiceInARow /\ ~PrevExhausted) => calls[1] = 0 /\ result[1] = prev.result

C4_Witness ==
    /\ TwiceInARow
    /\ prev.outcomes = <<"exception", "ok">>
    /\ calls[1] = 0
    /\ result[1] = prev.result

\* C5: a call with override = TRUE that has returned has issued at least
\* one remote call, cache entry or not, and what it returns is the answer
\* of its own last remote call or the sentinel, never the cache's row.
C5_ForcedRefresh ==
    (pc[1] = "done" /\ override[1]) =>
        /\ calls[1] >= 1
        /\ \/ result[1] = Sentinel /\ Failed(outcomes[1][calls[1]])
           \/ result[1] = summary[1] /\ outcomes[1][calls[1]] = "ok"

C5_Witness ==
    /\ pc[1] = "done"
    /\ override[1]
    /\ Cached(cache0[1], prompt[1]) # {}
    /\ calls[1] = 1
    /\ result[1] \notin Cached(cache0[1], prompt[1])

\* --------------------------------------------------- claims on find_chapter
\* The pages of d whose text contains the title c.
PagesWith(d, c) == {i \in 0..(Len(d) - 1) : InPage(d, i, c)}

\* The only page of d containing c (used where PagesWith(d, c) is a singleton).
PageOf(d, c) == CHOOSE i \in PagesWith(d, c) : TRUE

\* Every title of the list is on exactly one page, after page 0, and the
\* titles come in list order, on different pages.
InListOrder(d, list) ==
    /\ \A k \in 1..Len(list) :
          Cardinality(PagesWith(d, list[k])) = 1 /\ PageOf(d, list[k]) > 0
    /\ \A j, k \in 1..Len(list) :
          j < k => PageOf(d, list[j]) < PageOf(d, list[k])

\* find_chapter has run for chapter_name and did not answer from the
\* chapter cache.
Located == found.kind # "idle" /\ ~found.cached

\* C6: with a chapter list of at least two titles that all appear in the
\* document in list order, and no cached text, find_chapter for the first
\* chapter returns text, with a start page > 0, made of exactly the pages
\* from that start page to (start page of the second chapter) - 1.
C6_FirstChapterSpan ==
    (/\ Located
     /\ Len(chapter_list) >= 2
     /\ chapter_name = chapter_list[1]
     /\ InListOrder(doc, chapter_list))
    => /\ found.kind = "text"
       /\ found.start > 0
       /\ found.start = PageOf(doc, chapter_list[1])
       /\ found.read = PageRange(found.start, PageOf(doc, chapter_list[2]) - 1)

\* C7: for the last chapter of the list, its title on some page after page
\* 0 and no cached text, find_chapter returns text whose end page is the
\* document's last page index: every page from the start page through the
\* final page is extracted.  (Stated here for documents that hold every
\* title of the list on exactly one page, in list order.)
C7_LastChapterToEnd ==
    (/\ Located
     /\ Len(chapter_list) >= 1
     /\ chapter_name = chapter_list[Len(chapter_list)]
     /\ InListOrder(doc, chapter_list))
    => /\ found.kind = "text"
       /\ found.end = Len(doc) - 1
       /\ found.read = PageRange(PageOf(doc, chapter_name), Len(doc) - 1)

\* C8: if the requested title is on no page (and no text is cached for
\* it), find_chapter returns None, wherever the title stands in the list,
\* and also when it is not in the list at all: nothing is raised.
C8_NotFoundIsNone ==
    (Located /\ PagesWith(doc, chapter_name) = {}) => found.kind = "None"

\* ---------------------------------------------------- claims on the pipeline
\* The steps the run has taken.
Steps == Elems(log)

\* The run has ended, by a return or by an exception.
Ended == stage \in {"returned", "raised"}

\* chatbot.py:228: the error sentence is what the run returned.
ErrorValue ==
    /\ ret.kind = "str"
    /\ Len(ret.val) >= 1
    /\ ret.val[1] = "Error generating plot points for "

\* Nothing of the later stages has happened: no PlotPoint was saved and
\* generate_bagrut_qa was not entered; and if the run has ended, it ended
\* with the error sentence.
ShortCircuited ==
    /\ saved = <<>>
    /\ Steps \cap {"save", "questions", "answers"} = {}
    /\ Ended => ErrorValue

\* C9: pipeline short-circuit: once the chapter list has turned out empty,
\* or find_chapter has returned None, no plot-points prompt is issued, and
\* once the plot-points answer holds "Error", likewise: the run ends with
\* an error value, saves no PlotPoint and never enters generate_bagrut_qa.
C9_ShortCircuit ==
    /\ ("find" \in Steps /\ ~found.cached
           /\ (chapter_list = <<>> \/ found.kind = "None"))
       => ("plot" \notin Steps /\ ShortCircuited)
    /\ ("plotted" \in Steps /\ HasError(plot_points_response))
       => ShortCircuited

\* C10: the document being readable, generate_chapter_bagrutQnA never ends
\* with an exception, and when it ends it has returned a string, whatever
\* the requested title and the chapter list of the listing step.
C10_AlwaysAString ==
    /\ stage # "raised"
    /\ stage = "returned" => ret.kind = "str"

\* ------------------------------------------------------ claims on the parsers
\* The (question, answer) records the pairs stand for: each text trimmed.
RecordsOf(pairs) ==
    [k \in 1..Len(pairs) |->
        [question |-> Strip(pairs[k].q), answer |-> Strip(pairs[k].a)]]

\* C11: for a response made of a preamble and then, for k = 1..n, the marker
\* "**Question k:**", a question text q_k, the marker "**Answer:**" and an
\* answer text a_k, parse_questions_and_answers returns exactly n records in
\* source order, the k-th being (q_k trimmed, a_k trimmed).
C11_RecordsOfPairs ==
    ("qa" \in parsed /\ qa_source # None) => qa_out = RecordsOf(qa_source[1])

\* The normalized labels of the headers of a text.
LabelsIn(text) ==
    LET hs == Headers(text, 1)
    IN  {NormLabel(hs[i].label) : i \in 1..Len(hs)}

\* C12: the result of parse_plot_points_response has exactly the eight known
\* field keys: a header with another label adds nothing, and a field whose
\* header never appears is the empty string.
C12_ExactlyEightKeys ==
    "pp" \in parsed =>
        /\ DOMAIN pp_out = Elems(FieldKeys)
        /\ \A k \in Elems(FieldKeys) \ LabelsIn(reply) : pp_out[k] = <<>>

\* The content of the i-th header of text: what follows the last "**" in the
\* span from that header's start to the next header's start (the end of the
\* text for the last header), trimmed.
SpanContent(text, hs, i) ==
    LET next == IF i < Len(hs) THEN hs[i + 1].start ELSE Len(text) + 1
    IN  Strip(AfterLastDelim(Slice(text, hs[i].start, next)))

\* C19: parse_plot_points_response sets each known field whose header occurs
\* to the content of that header's span, in any header order, with unknown
\* headers in between, and when a label occurs more than once (the field is
\* then the content of one of the label's headers).
C19_FieldIsSpanContent ==
    "pp" \in parsed =>
        LET hs == Headers(reply, 1)
        IN  \A k \in Elems(FieldKeys) \cap LabelsIn(reply) :
                \E i \in 1..Len(hs) :
                    /\ NormLabel(hs[i].label) = k
                    /\ pp_out[k] = SpanContent(reply, hs, i)

\* ------------------------------------------- claims on the failure sentinel
\* C13: the pipeline treats the failure sentinel as a failure: once the
\* plot-points call has exhausted its attempts and returned the sentinel,
\* no PlotPoint is saved, generate_bagrut_qa is never entered, and the run
\* ends with an error value.
C13_SentinelIsFailure ==
    ("plotted" \in Steps /\ plot_points_response = Sentinel) => ShortCircuited

\* The threads whose call ended with a successful remote call.
Winners ==
    {t \in Procs : outcomes[t] # <<>> /\ outcomes[t][Len(outcomes[t])] = "ok"}

\* Both concurrent calls have returned.
BothDone == \A t \in Procs : pc[t] = "done"

\* C14: two execute_prompt calls for one prompt interleaved at the cache
\* read, the remote calls and the cache write: after both have finished the
\* cache entry of the prompt is absent if both calls failed, and otherwise
\* is the response text of one of the successful remote calls; the failure
\* sentinel is never in the cache.
C14_EntryIsASuccessfulAnswer ==
    /\ \A e \in cache : e.response # Sentinel
    /\ BothDone =>
          /\ Winners = {} => Cached(cache, ConcPrompt) = {}
          /\ Winners # {} =>
                \E t \in Winners : Cached(cache, ConcPrompt) = {summary[t]}

\* Both calls went remote and succeeded with different texts; the entry is
\* the text of one of them.
C14_Witness ==
    /\ BothDone
    /\ Winners = Procs
    /\ summary[1] # summary[2]
    /\ Cached(cache, ConcPrompt) = {summary[1]}

\* The rows of cache c under prompt p.
Rows(c, p) == {e \in c : e.prompt = p}

\* C15: calls made one at a time: the cache holds at most one entry per
\* prompt; a call leaves the entries of every other prompt as they were when
\* it started, and a call without override that started with an entry for
\* its prompt leaves the whole cache as it was.
C15_ReplacedOnlyOnOverride ==
    /\ \A p \in ExecPrompts : Cardinality(Rows(cache, p)) <= 1
    /\ pc[1] # "idle" =>
          /\ \A q \in ExecPrompts \ {prompt[1]} :
                Rows(cache, q) = Rows(cache0[1], q)
          /\ (~override[1] /\ Rows(cache0[1], prompt[1]) # {})
                => cache = cache0[1]

\* A call without override has returned; its prompt had an entry when it
\* started, and another prompt has an entry too.
C15_Witness ==
    /\ pc[1] = "done"
    /\ ~override[1]
    /\ Rows(cache0[1], prompt[1]) # {}
    /\ \E q \in ExecPrompts \ {prompt[1]} : Rows(cache, q) # {}

\* ------------------------------------------ claims on find_chapter's spans
\* The lowest page index of d whose text contains c.
FirstPage(d, c) ==
    CHOOSE i \in PagesWith(d, c) : \A j \in PagesWith(d, c) : i <= j

\* C16: first match wins: after the scan, the start page recorded for each
\* title of the list is the lowest page index whose text contains the title,
\* or a not-found value (-1, or the initial 0) if no page contains it,
\* whatever later pages hold and whatever other titles are on the same page.
C16_FirstMatchWins ==
    Located =>
        \A c \in Elems(chapter_list) :
            LET at == Scan(doc, chapter_list)[c]
            IN  IF PagesWith(doc, c) = {} THEN at \in {-1, 0}
                ELSE at = FirstPage(doc, c)

\* C17: fallback window: for a requested chapter that is not the last of the
\* list and has a resolved start page s, the pages extracted are s..s+4 when
\* the next chapter's start is unresolved or (next start) - 1 is at or
\* before s, and s..(next start) - 1 otherwise.  (Stated where that last
\* page exists in the document.)
C17_FallbackWindow ==
    (/\ Located
     /\ chapter_name \in Elems(chapter_list)
     /\ ListIndex(chapter_list, chapter_name) < Len(chapter_list) - 1
     /\ Scan(doc, chapter_list)[chapter_name] > 0)
    => LET chapters == Scan(doc, chapter_list)
           s == chapters[chapter_name]
           next == chapters[chapter_list[ListIndex(chapter_list, chapter_name) + 2]]
           last == IF next <= 0 \/ next - 1 <= s THEN s + 4 ELSE next - 1
       IN  last <= Len(doc) - 1 =>
               /\ found.kind = "text"
               /\ found.read = PageRange(s, last)

\* C18: whenever find_chapter computes a span and caches the chapter text,
\* start <= end and the start page's text is in the cached text: no empty
\* page range is extracted and cached.
C18_SpanNotEmpty ==
    (Located /\ found.kind = "text")
    => /\ found.start <= found.end
       /\ found.read # <<>>
       /\ found.read[1] = found.start

\* book.py:64-65: the indices the extraction loop subscripts pdf.pages with,
\* for a document of n pages: start, start + 1, ... up to end, or up to the
\* first index past the last page, where the subscript raises.
Subscripted(o, n) == {i \in o.start..o.end : i <= n}

\* C20: every page index find_chapter reads while extracting lies between 0
\* and (page count - 1), the fallback end page included.
C20_ReadsInRange ==
    (Located /\ found.end # -2)
    => \A i \in Subscripted(found, Len(doc)) : 0 <= i /\ i <= Len(doc) - 1

====
